---- MODULE Spec2Model ----
(***************************************************************************)
(* Model of code.py of pyportal-accessibility-map: the streaming download  *)
(* of the map image, the places request, the place-detail renderer and the *)
(* touch-driven main loop.                                                 *)
(*                                                                         *)
(* One step of the model is one chunk of the download, the places request, *)
(* or one whole iteration of the main loop (the loop is single-threaded    *)
(* and runs each iteration to completion).                                 *)
(***************************************************************************)
EXTENDS Integers, Sequences, FiniteSets, TLC

VARIABLES
    pc,                 \* position of the program: "download", "request", "loop", "KeyError"
    content_length,     \* download_file: int(headers["content-length"])
    remaining,          \* download_file: bytes still expected
    written,            \* download_file: bytes written to the map file
    avail,              \* bytes the response stream will still deliver before it ends
    response,           \* the JSON the places service will answer with
    data,               \* data = response.json(), after the startup loop stored x and y
    touch,              \* the sample ts.touch_point returned in the latest iteration
    touch_active,       \* touch tracking flag
    release_count,      \* touch tracking counter
    current_view,       \* 0 = map view, 1 = place view
    map_group_hidden,   \* map_group.hidden
    place_group_hidden, \* place_group.hidden
    place_info_group,   \* the drawables of the place view, in order
    branch,             \* history: the branch the latest iteration of the loop took
    hold,               \* history: touch-present iterations since the tracker became active
    absent_run,         \* history: consecutive no-touch iterations up to now
    cycle_absent,       \* history: no-touch iterations since the tracker became active
    press_touch         \* history: touch point of the latest press in the map view

vars == <<pc, content_length, remaining, written, avail, response, data, touch,
          touch_active, release_count, current_view, map_group_hidden,
          place_group_hidden, place_info_group, branch, hold, absent_run,
          cycle_absent, press_touch>>

progvars == <<touch_active, release_count, current_view, map_group_hidden,
              place_group_hidden, place_info_group>>

----------------------------------------------------------------------------
(* Bounds of the model *)

MaxPlaces == 2

MaxLen == 2

MaxHold == 2

MaxOpts == 3

(* Program constants *)

release_threshold == 2

icon_size == 20

chunk_size == 4096

\* ts.touch_point returns None or a point; None is the empty tuple here.
None == << >>

Min(a, b) == IF a < b THEN a ELSE b

----------------------------------------------------------------------------
(* Inputs *)

\* Place records as the places service returns them, with the pixel
\* coordinate the startup loop stores in them.  accessibilityOptions is the
\* JSON object in its key order; name_lines is the number of lines
\* wrap_text_to_pixels cuts the display name into.
Opt(k, v) == [key |-> k, value |-> v]

PlaceKinds ==
    { [x |-> 10, y |-> 10, name_lines |-> 1,
       accessibilityOptions |-> << Opt("wheelchairAccessibleParking", TRUE),
                                   Opt("wheelchairAccessibleEntrance", TRUE) >>],
      [x |-> 20, y |-> 10, name_lines |-> 2,
       accessibilityOptions |-> << Opt("wheelchairAccessibleParking", FALSE),
                                   Opt("wheelchairAccessibleRestroom", TRUE),
                                   Opt("wheelchairAccessibleEntrance", TRUE) >>],
      [x |-> 10, y |-> 20, name_lines |-> 1,
       accessibilityOptions |-> << >>] }

\* A place of kind k at position i of the places array; its display name is
\* unique in the response.
Place(k, i) ==
    [displayName |-> ToString(i), x |-> k.x, y |-> k.y, name_lines |-> k.name_lines,
     accessibilityOptions |-> k.accessibilityOptions]

PlaceLists(kinds, n) ==
    UNION { { [i \in 1..m |-> Place(f[i], i)] : f \in [1..m -> kinds] } : m \in 0..n }

\* The JSON root either has a "places" array or has no such key.
Responses(kinds, n) ==
    { [places |-> ps] : ps \in PlaceLists(kinds, n) } \cup { << >> }

\* Touch points: on, inside and outside the edges of the icon boxes, on
\* each axis.
TouchPoints ==
    { <<0, 10>>, <<10, 10>>, <<19, 10>>, <<20, 10>>, <<30, 10>>,
      <<10, 0>>, <<10, 19>>, <<10, 20>>, <<10, 30>> }

----------------------------------------------------------------------------
(* icon_touched *)

\* Variant: the far edges of the box are included.
icon_touched_closed(x, y, size, t) ==
    /\ 2*x - size <= 2*t[1] /\ 2*t[1] <= 2*x + size
    /\ 2*y - size <= 2*t[2] /\ 2*t[2] <= 2*y + size

\* size/2 is a float division; both sides are doubled to stay in integers.
icon_touched(x, y, size, t) ==
    /\ 2*x - size <= 2*t[1] /\ 2*t[1] < 2*x + size
    /\ 2*y - size <= 2*t[2] /\ 2*t[2] < 2*y + size

----------------------------------------------------------------------------
(* update_place_view *)

access_height == 58

accessibility_options_formatted ==
    [option \in { "wheelchairAccessibleParking", "wheelchairAccessibleEntrance",
                  "wheelchairAccessibleRestroom", "wheelchairAccessibleSeating" } |->
        CASE option = "wheelchairAccessibleParking"  -> [name |-> "Parking",  icon |-> "parking_icon"]
          [] option = "wheelchairAccessibleEntrance" -> [name |-> "Entrance", icon |-> "entrance_icon"]
          [] option = "wheelchairAccessibleRestroom" -> [name |-> "Restroom", icon |-> "restroom_icon"]
          [] option = "wheelchairAccessibleSeating"  -> [name |-> "Seating",  icon |-> "seating_icon"]]

\* A drawable: its type, its text or bitmap, its position.  A Label's
\* position is its anchored_position; half = 1 adds half a pixel to y.
Drawable(kind, text, x, y, half) ==
    [kind |-> kind, text |-> text, x |-> x, y |-> y, half |-> half]

\* Variant: the index counted from 1.
RowTop_onebased(access_offset, i) == access_offset + (i + 1) * access_height

\* Top of the row drawn for the option at index i of enumerate().
RowTop(access_offset, i) == access_offset + i * access_height

\* The four drawables appended for the option at index i, nothing when its
\* value is not True.  (access_height-5)/2 = 26.5; int(26.5 - 16) = 10.
OptionRow(opt, i, access_offset) ==
    IF opt.value = TRUE
    THEN LET option_name == accessibility_options_formatted[opt.key].name
             option_icon == accessibility_options_formatted[opt.key].icon
             top == RowTop(access_offset, i)
         IN << Drawable("Rect", "", 15, top, 0),
               Drawable("Label", option_name, 120, top + 26, 1),
               Drawable("TileGrid", option_icon, 25, top + 10, 0),
               Drawable("TileGrid", "check_icon", 240 - 15 - 32 - 10, top + 10, 0) >>
    ELSE << >>

RECURSIVE OptionRows(_, _, _)
\* The loop over enumerate(place["accessibilityOptions"]), from index i on.
OptionRows(opts, i, access_offset) ==
    IF i >= Len(opts) THEN << >>
    ELSE OptionRow(opts[i + 1], i, access_offset) \o OptionRows(opts, i + 1, access_offset)

\* The content of place_info_group after update_place_view(place): the
\* previous drawables are popped, then the name lines, the address line and
\* the option rows are appended.  Each name line carries the display name
\* (the wrapped text itself is the font library's); the address label's text
\* (first address segment and distance) is not modelled.
update_place_view(place) ==
    LET name_offset == 15
        name_labels == [i \in 1..place.name_lines |->
                           Drawable("Label", place.displayName, 120, name_offset + (i - 1) * 20, 0)]
        address_offset == name_offset + place.name_lines * 20 + 3
        access_offset == address_offset + 20
    IN name_labels
         \o << Drawable("Label", "address", 120, address_offset, 0) >>
         \o OptionRows(place.accessibilityOptions, 0, access_offset)

----------------------------------------------------------------------------
(* download_file *)

\* State on entering the loop over response.iter_content: the header has
\* been read, nothing is written, and the stream will deliver at most
\* Content-Length bytes before it ends.
DownloadInit(lengths) ==
    /\ content_length \in lengths
    /\ avail \in 0..content_length
    /\ remaining = content_length
    /\ written = 0

\* One iteration of the loop: a chunk of n bytes arrives, is subtracted
\* from remaining and written; the loop breaks once remaining is 0.
DownloadChunk ==
    /\ pc = "download"
    /\ avail > 0
    /\ \E n \in 1..Min(Min(content_length, chunk_size), avail) :
          /\ remaining' = remaining - n
          /\ written' = written + n
          /\ avail' = avail - n
          /\ pc' = IF remaining' = 0 THEN "request" ELSE "download"
    /\ UNCHANGED <<content_length, response, data, touch, progvars, branch, hold,
                   absent_run, cycle_absent, press_touch>>

\* The stream ends: the for loop is exhausted, response.close() runs and
\* download_file returns.
DownloadEnd ==
    /\ pc = "download"
    /\ avail = 0
    /\ pc' = "request"
    /\ UNCHANGED <<content_length, remaining, written, avail, response, data, touch,
                   progvars, branch, hold, absent_run, cycle_absent, press_touch>>

----------------------------------------------------------------------------
(* places request and startup loop *)

\* data = response.json(); when "places" is in data every place gets its x
\* and y (already part of the place records here); then the map is shown.
PlacesRequest ==
    /\ pc = "request"
    /\ data' = response
    /\ map_group_hidden' = FALSE
    /\ pc' = "loop"
    /\ UNCHANGED <<content_length, remaining, written, avail, response, touch,
                   touch_active, release_count, current_view, place_group_hidden,
                   place_info_group, branch, hold, absent_run, cycle_absent, press_touch>>

----------------------------------------------------------------------------
(* main loop *)

\* Variant: every press selects, whether or not the icon is touched.
CanSelect_any(is_touched, active) == active = FALSE

\* Variant: the icons are tested again while the touch is active.
CanSelect_retest(is_touched, active) == is_touched

\* The condition of line 472.
CanSelect(is_touched, active) == is_touched /\ active = FALSE

RECURSIVE SelectedPlace_last(_, _, _, _)
\* Variant: the last place that passes the condition, not the first.
SelectedPlace_last(places, i, t, active) ==
    IF i > Len(places) THEN 0
    ELSE LET later == SelectedPlace_last(places, i + 1, t, active) IN
         IF later # 0 THEN later
         ELSE IF CanSelect(icon_touched(places[i].x, places[i].y, icon_size, t), active)
              THEN i ELSE 0

RECURSIVE SelectedPlace(_, _, _, _)
\* The for loop over data["places"] with its break: the index of the first
\* place, from index i on, that passes the condition; 0 when none does.
SelectedPlace(places, i, t, active) ==
    IF i > Len(places) THEN 0
    ELSE IF CanSelect(icon_touched(places[i].x, places[i].y, icon_size, t), active)
         THEN i
         ELSE SelectedPlace(places, i + 1, t, active)

\* Variant: released one iteration early.
ReleaseDue_early(count) == count >= release_threshold - 1

\* Variant: released one iteration late.
ReleaseDue_strict(count) == count > release_threshold

\* The condition of line 488.
ReleaseDue(count) == count >= release_threshold

\* Variant: both branches show the place view.
ToggleView_stuck(view) == IF view = 0 THEN 1 ELSE 1

\* The view after the display update of lines 492-499.
ToggleView(view) == IF view = 0 THEN 1 ELSE 0

\* An iteration whose touch sample is the point t.
TouchTick(t) ==
    /\ pc = "loop"
    /\ touch' = t
    /\ absent_run' = 0
    /\ IF current_view = 0
       THEN IF "places" \notin DOMAIN data
            THEN \* data["places"] raises KeyError: the program ends
                 /\ pc' = "KeyError"
                 /\ branch' = "error"
                 /\ UNCHANGED <<progvars, hold, cycle_absent, press_touch>>
            ELSE LET i == SelectedPlace(data.places, 1, t, touch_active) IN
                 /\ pc' = pc
                 /\ IF i # 0
                    THEN /\ place_info_group' = update_place_view(data.places[i])
                         /\ release_count' = 0
                         /\ touch_active' = TRUE
                         /\ hold' = 1
                         /\ cycle_absent' = 0
                         /\ branch' = "hit"
                    ELSE /\ UNCHANGED <<place_info_group, release_count, touch_active,
                                        cycle_absent>>
                         /\ hold' = IF touch_active THEN Min(hold + 1, MaxHold) ELSE hold
                         /\ branch' = IF touch_active THEN "held" ELSE "miss"
                 /\ press_touch' = IF touch_active THEN press_touch ELSE t
                 /\ UNCHANGED <<current_view, map_group_hidden, place_group_hidden>>
       ELSE /\ pc' = pc
            /\ IF touch_active = FALSE
               THEN /\ release_count' = 0
                    /\ touch_active' = TRUE
                    /\ hold' = 1
                    /\ cycle_absent' = 0
                    /\ branch' = "press"
               ELSE /\ UNCHANGED <<release_count, touch_active, cycle_absent>>
                    /\ hold' = Min(hold + 1, MaxHold)
                    /\ branch' = "held"
            /\ UNCHANGED <<current_view, map_group_hidden, place_group_hidden,
                           place_info_group, press_touch>>
    /\ UNCHANGED <<content_length, remaining, written, avail, response, data>>

\* An iteration whose touch sample is None.
NoTouchTick ==
    /\ pc = "loop"
    /\ touch' = None
    /\ absent_run' = Min(absent_run + 1, release_threshold + 1)
    /\ IF touch_active = TRUE
       THEN /\ cycle_absent' = cycle_absent + 1
            /\ IF ReleaseDue(release_count)
               THEN /\ touch_active' = FALSE
                    /\ current_view' = ToggleView(current_view)
                    /\ map_group_hidden' = (current_view = 0)
                    /\ place_group_hidden' = (current_view # 0)
                    /\ branch' = "release"
                    /\ UNCHANGED release_count
               ELSE /\ release_count' = release_count + 1
                    /\ branch' = "count"
                    /\ UNCHANGED <<touch_active, current_view, map_group_hidden,
                                   place_group_hidden>>
       ELSE /\ branch' = "idle"
            /\ UNCHANGED <<touch_active, release_count, current_view, map_group_hidden,
                           place_group_hidden, cycle_absent>>
    /\ UNCHANGED <<pc, content_length, remaining, written, avail, response, data,
                   place_info_group, hold, press_touch>>

----------------------------------------------------------------------------
(* Specifications *)

\* The state when download_file enters its loop: the module-level
\* assignments of lines 264-287 have run and the splash is shown.
InitWith(responses, lengths) ==
    /\ pc = "download"
    /\ DownloadInit(lengths)
    /\ response \in responses
    /\ data = << >>
    /\ touch = None
    /\ touch_active = FALSE
    /\ release_count = 0
    /\ current_view = 0
    /\ map_group_hidden = TRUE
    /\ place_group_hidden = TRUE
    /\ place_info_group = << >>
    /\ branch = "start"
    /\ hold = 0
    /\ absent_run = 0
    /\ cycle_absent = 0
    /\ press_touch = None

Init == InitWith(Responses(PlaceKinds, MaxPlaces), 1..MaxLen)

Next ==
    \/ DownloadChunk
    \/ DownloadEnd
    \/ PlacesRequest
    \/ \E t \in TouchPoints : TouchTick(t)
    \/ NoTouchTick

Spec == Init /\ [][Next]_vars

\* The renderer's inputs: one place whose accessibilityOptions is any
\* ordered selection of at most MaxOpts of the four option keys, each with
\* either value.
OptionKeys == DOMAIN accessibility_options_formatted

OptionRecords(n) ==
    UNION { { [i \in 1..m |-> Opt(ks[i], vs[i])] :
                ks \in { f \in [1..m -> OptionKeys] :
                            \A i, j \in 1..m : i # j => f[i] # f[j] },
                vs \in [1..m -> BOOLEAN] } : m \in 0..n }

RenderKinds ==
    { [x |-> 10, y |-> 10, name_lines |-> nl, accessibilityOptions |-> o] :
        nl \in 1..2, o \in OptionRecords(MaxOpts) }

InitRender ==
    InitWith({ [places |-> << Place(k, 1) >>] : k \in RenderKinds }, {1})

SpecRender == InitRender /\ [][Next]_vars

----------------------------------------------------------------------------
(* Properties *)

\* The places array of data, empty when the key is missing.
Places == IF "places" \in DOMAIN data THEN data.places ELSE << >>

\* The point t lies in the icon box of place p, half-open on both axes.
InBox(p, t) ==
    /\ p.x - icon_size \div 2 <= t[1] /\ t[1] < p.x + icon_size \div 2
    /\ p.y - icon_size \div 2 <= t[2] /\ t[2] < p.y + icon_size \div 2

\* The places, by index, whose icon box contains t.
Hits(t) == IF t = None THEN {} ELSE { i \in 1..Len(Places) : InBox(Places[i], t) }

First(S) == CHOOSE i \in S : \A j \in S : i <= j

\* C1 as stated: on every iteration with a touch sample while the tracker is
\* idle, the tracker becomes active with release count 0, in either view and
\* whether or not the point is inside an icon box.
C1_PressAlwaysActivates ==
    [][(pc = "loop" /\ pc' = "loop" /\ touch' # None /\ touch_active = FALSE)
          => (touch_active' = TRUE /\ release_count' = 0)]_vars

\* C1 amended: on an iteration with a touch sample while the tracker is
\* idle, the tracker becomes active with release count 0 in the place view,
\* and in the map view exactly when the point is inside some place's icon
\* box; otherwise tracker and release count stay as they were.
C1_PressActivatesOnHit ==
    [][(pc = "loop" /\ touch' # None /\ touch_active = FALSE)
          => IF current_view = 1 \/ Hits(touch') # {}
             THEN touch_active' = TRUE /\ release_count' = 0
             ELSE touch_active' = FALSE /\ release_count' = release_count]_vars

C1_Witness ==
    /\ pc = "loop" /\ branch = "hit" /\ current_view = 0
    /\ Hits(touch) # {} /\ touch_active = TRUE /\ release_count = 0

\* C2 as stated: a release is registered only when the touch has been
\* absent for release_threshold consecutive iterations (the releasing one
\* included).
C2_ReleaseAfterConsecutiveAbsence ==
    branch = "release" => absent_run >= release_threshold

\* C2 amended: while the tracker is active the release count is the number
\* of no-touch iterations since it became active, touch-present iterations
\* in between leaving it unchanged, and the release is registered on the
\* no-touch iteration after that number reached release_threshold.
C2_ReleaseAfterCumulativeAbsence ==
    /\ touch_active = TRUE =>
          (release_count = cycle_absent /\ cycle_absent <= release_threshold)
    /\ branch = "release" => cycle_absent = release_threshold + 1

C2_Witness ==
    branch = "release" /\ absent_run = 1 /\ cycle_absent = release_threshold + 1

\* C3: after an activation by one touch-present iteration, the first and
\* the second no-touch iteration leave the view unchanged and take the release
\* count from 0 to 1 to 2, the third toggles the view and leaves the tracker
\* idle, and a no-touch iteration with the tracker idle changes nothing.
C3_ThirdAbsentTickToggles ==
    [][(pc = "loop" /\ touch' = None) =>
          /\ (touch_active = TRUE /\ hold = 1 /\ cycle_absent \in {0, 1}) =>
                /\ current_view' = current_view
                /\ touch_active' = TRUE
                /\ release_count = cycle_absent
                /\ release_count' = cycle_absent + 1
          /\ (touch_active = TRUE /\ hold = 1 /\ cycle_absent \notin {0, 1}) =>
                /\ cycle_absent = 2
                /\ release_count = 2
                /\ current_view' = 1 - current_view
                /\ touch_active' = FALSE
          /\ touch_active = FALSE => UNCHANGED progvars]_vars

C3_Witness ==
    /\ branch = "idle" /\ hold = 1 /\ cycle_absent = 3 /\ absent_run = 3
    /\ touch_active = FALSE /\ current_view = 1

\* C4: the view changes only in a no-touch iteration; it does not change in
\* the iteration that activates the tracker nor while the tracker stays
\* active, and it changes to the other view in the iteration that returns
\* the tracker to idle, however many touch-present iterations the hold had.
C4_OneToggleOnRelease ==
    [][pc = "loop" =>
          /\ current_view' # current_view => touch' = None
          /\ touch_active = FALSE => current_view' = current_view
          /\ (touch_active = TRUE /\ touch_active' = TRUE) => current_view' = current_view
          /\ (touch_active = TRUE /\ touch_active' = FALSE) =>
                current_view' = 1 - current_view]_vars

C4_Witness ==
    branch = "release" /\ hold >= 2 /\ current_view = 0 /\ touch_active = FALSE

\* C5: once the main loop is reached, no iteration raises an error.
C5_NoTickRaises == pc # "KeyError"

\* C6: in the map view with the tracker idle, a touch renders the detail of
\* the first place in list order whose half-open icon box contains the
\* point, renders nothing when no box contains it, and the view is still
\* the map view after the iteration.
C6_FirstHitRendered ==
    [][(pc = "loop" /\ "places" \in DOMAIN data /\ current_view = 0
          /\ touch_active = FALSE /\ touch' # None) =>
          /\ current_view' = 0
          /\ Hits(touch') # {} =>
                /\ place_info_group' = update_place_view(Places[First(Hits(touch'))])
                /\ place_info_group'[1].text = Places[First(Hits(touch'))].displayName
          /\ Hits(touch') = {} => place_info_group' = place_info_group]_vars

C6_Witness ==
    /\ branch = "hit" /\ current_view = 0 /\ Cardinality(Hits(touch)) >= 2
    /\ place_info_group = update_place_view(Places[First(Hits(touch))])

\* C7: an iteration with a touch sample while the tracker is active changes
\* neither the tracker flag, the release count, the view nor the place
\* view's content.
C7_HeldTouchChangesNothing ==
    [][(pc = "loop" /\ touch' # None /\ touch_active = TRUE) =>
          (pc' = "loop" /\ UNCHANGED progvars)]_vars

C7_Witness ==
    /\ branch = "held" /\ current_view = 0 /\ touch_active = TRUE
    /\ \E i \in Hits(touch) : place_info_group[1].text # Places[i].displayName

\* The place, by index, whose detail the place view holds.
Shown(i) ==
    /\ place_info_group # << >>
    /\ i \in 1..Len(Places)
    /\ place_info_group[1].text = Places[i].displayName

\* The drawables after the address line come in rows of four.
RowCount(p) == (Len(place_info_group) - p.name_lines - 1) \div 4

RowRect(p, k) == place_info_group[p.name_lines + 1 + 4 * (k - 1) + 1]

RowLabel(p, k) == place_info_group[p.name_lines + 1 + 4 * (k - 1) + 2]

\* The first row position under the address line.
FirstRowTop(p) == place_info_group[p.name_lines + 1].y + 20

\* The order of the table accessibility_options_formatted.
TableOrder ==
    << "wheelchairAccessibleParking", "wheelchairAccessibleEntrance",
       "wheelchairAccessibleRestroom", "wheelchairAccessibleSeating" >>

\* The table keys that are present and true in the place record, in table order.
TrueInTableOrder(p) ==
    SelectSeq(TableOrder,
              LAMBDA key : \E j \in 1..Len(p.accessibilityOptions) :
                              /\ p.accessibilityOptions[j].key = key
                              /\ p.accessibilityOptions[j].value = TRUE)

\* The positions in the place record, in its own key order, of the options
\* that are true.
TrueInRecordOrder(p) ==
    SelectSeq([j \in 1..Len(p.accessibilityOptions) |-> j],
              LAMBDA j : p.accessibilityOptions[j].value = TRUE)

\* C8 as stated: the rows are the options present and true in the place
\* record, in table order, the k-th row (k = 0, 1, ...) k*58 px below the
\* first row position.
C8_RowsInTableOrderNoGaps ==
    \A i \in 1..Len(Places) : Shown(i) =>
        LET p == Places[i]
            keys == TrueInTableOrder(p)
        IN /\ RowCount(p) = Len(keys)
           /\ \A k \in 1..Len(keys) :
                 /\ RowLabel(p, k).text = accessibility_options_formatted[keys[k]].name
                 /\ RowRect(p, k).y = FirstRowTop(p) + (k - 1) * 58

\* C8 amended: the rows are the options that are true in the place record,
\* in the record's own key order, and the row of the option at index i of
\* the record (i = 0, 1, ...) is i*58 px below the first row position, so an
\* option that is false leaves its slot empty.
C8_RowsInRecordOrderWithSlots ==
    \A i \in 1..Len(Places) : Shown(i) =>
        LET p == Places[i]
            at == TrueInRecordOrder(p)
        IN /\ RowCount(p) = Len(at)
           /\ Len(place_info_group) = p.name_lines + 1 + 4 * Len(at)
           /\ \A k \in 1..Len(at) :
                 /\ RowRect(p, k).kind = "Rect"
                 /\ RowLabel(p, k).text =
                       accessibility_options_formatted[p.accessibilityOptions[at[k]].key].name
                 /\ RowRect(p, k).y = FirstRowTop(p) + (at[k] - 1) * 58

C8_Witness ==
    /\ Shown(1)
    /\ Places[1].accessibilityOptions =
          << Opt("wheelchairAccessibleRestroom", FALSE),
             Opt("wheelchairAccessibleSeating", TRUE),
             Opt("wheelchairAccessibleParking", TRUE) >>
    /\ RowCount(Places[1]) = 2
    /\ RowRect(Places[1], 1).y = FirstRowTop(Places[1]) + 58

\* C9: download_file returns normally only when the bytes written have
\* reached Content-Length.
C9_ReturnsOnlyWhenComplete == pc # "download" => written = content_length

\* C10: whenever the place view is shown, the place view holds the detail
\* of the first place hit by the latest press in the map view, and the view
\* never goes from map to place when that press hit no icon.
C10_DetailOfLatestHit ==
    /\ [](current_view = 1 =>
             /\ place_info_group # << >>
             /\ Hits(press_touch) # {}
             /\ place_info_group = update_place_view(Places[First(Hits(press_touch))]))
    /\ [][(current_view = 0 /\ current_view' = 1) => Hits(press_touch) # {}]_vars

C10_Witness ==
    /\ current_view = 1 /\ branch = "release" /\ Cardinality(Hits(press_touch)) >= 2
    /\ place_info_group[1].text = Places[First(Hits(press_touch))].displayName

====
